---- MODULE Spec2Model ----
(***************************************************************************)
(* A model of the examples of py_protocol.py: the classes and Protocols    *)
(* the article defines, the structural check between them, and the small   *)
(* functions and stateful classes it uses as illustrations.                *)
(***************************************************************************)
EXTENDS Integers, Sequences, FiniteSets, TLC

VARIABLES protocols, added, user, pc, plugin, trace, quacks,
          responses, boxes, out, last

vars == <<protocols, added, user, pc, plugin, trace, quacks,
          responses, boxes, out, last>>

(***************************************************************************)
(* Bounds of the model.                                                    *)
(***************************************************************************)
MaxAdded == 2
MaxNameLen == 2
MaxAge == 2
MaxCalls == 3
MaxInst == 2

(***************************************************************************)
(* Optional[...] values: None is the empty set, a value v is {v}.          *)
(***************************************************************************)
None == {}

Some(v) == {v}

(***************************************************************************)
(* The classes of the article: their bases and, per method, the declared   *)
(* return type.                                                            *)
(***************************************************************************)
Duck == [bases |-> {}, methods |-> [quack |-> "str"]]

Circle == [bases |-> {}, methods |-> [draw |-> "None"]]

DrawableABC == [bases |-> {"ABC"}, methods |-> [draw |-> "None"]]

Square == [bases |-> {"DrawableABC"}, methods |-> [draw |-> "None"]]

Shape == [bases |-> {}, methods |-> [draw |-> "str"]]

JsonConfigReader == [bases |-> {}, methods |-> [read_config |-> "dict"]]

YamlConfigReader == [bases |-> {}, methods |-> [read_config |-> "dict"]]

User == [bases |-> {}, methods |-> [validate |-> "bool"]]

ImageProcessor ==
  [bases |-> {}, methods |-> [initialize |-> "None", execute |-> "None"]]

NumberBox == [bases |-> {}, methods |-> [get |-> "float", set |-> "None"]]

WebResponse ==
  [bases |-> {}, methods |-> [set_cookie |-> "None", delete_cookie |-> "None"]]

ClassNames ==
  {"Duck", "Circle", "Square", "Shape", "JsonConfigReader", "YamlConfigReader",
   "User", "ImageProcessor", "NumberBox", "WebResponse"}

Classes ==
  [c \in ClassNames |->
     CASE c = "Duck" -> Duck
       [] c = "Circle" -> Circle
       [] c = "Square" -> Square
       [] c = "Shape" -> Shape
       [] c = "JsonConfigReader" -> JsonConfigReader
       [] c = "YamlConfigReader" -> YamlConfigReader
       [] c = "User" -> User
       [] c = "ImageProcessor" -> ImageProcessor
       [] c = "NumberBox" -> NumberBox
       [] c = "WebResponse" -> WebResponse]

(***************************************************************************)
(* The Protocols of the article: whether the class is decorated with       *)
(* runtime_checkable, and the methods it requires with their return types. *)
(***************************************************************************)
Quackable == [runtime |-> TRUE, methods |-> [quack |-> "str"]]

Drawable == [runtime |-> TRUE, methods |-> [draw |-> "None"]]

ConfigReader == [runtime |-> FALSE, methods |-> [read_config |-> "dict"]]

Validatable == [runtime |-> FALSE, methods |-> [validate |-> "bool"]]

Plugin ==
  [runtime |-> FALSE, methods |-> [initialize |-> "None", execute |-> "None"]]

Container == [runtime |-> FALSE, methods |-> [get |-> "T", set |-> "None"]]

ResponseCookies ==
  [runtime |-> FALSE,
   methods |-> [set_cookie |-> "None", delete_cookie |-> "None"]]

ProtocolNames ==
  {"Quackable", "Drawable", "ConfigReader", "Validatable", "Plugin",
   "Container", "ResponseCookies"}

Protocols ==
  [p \in ProtocolNames |->
     CASE p = "Quackable" -> Quackable
       [] p = "Drawable" -> Drawable
       [] p = "ConfigReader" -> ConfigReader
       [] p = "Validatable" -> Validatable
       [] p = "Plugin" -> Plugin
       [] p = "Container" -> Container
       [] p = "ResponseCookies" -> ResponseCookies]

(***************************************************************************)
(* The functions of the article whose parameter is annotated with a        *)
(* Protocol.                                                               *)
(***************************************************************************)
ParamProtocol ==
  [render |-> "Drawable", init_app |-> "ConfigReader",
   save_to_db |-> "Validatable", run_plugin |-> "Plugin",
   handle_response |-> "ResponseCookies"]

(***************************************************************************)
(* Objects handed to the runtime check: instances of the article's classes *)
(* and of other classes that define any of a few method names with any     *)
(* return type.                                                            *)
(***************************************************************************)
ProbeNames == {"draw", "area"}

RetTypes == {"None", "str"}

Objects ==
  {Classes[c] : c \in ClassNames} \cup
  UNION {{[bases |-> {}, methods |-> f] : f \in [S -> RetTypes]} :
           S \in SUBSET ProbeNames}

(***************************************************************************)
(* Methods with which a Protocol may be extended later.                    *)
(***************************************************************************)
NewMethods == {"area", "close"}

(***************************************************************************)
(* hasattr(o, name) for a method name.                                     *)
(***************************************************************************)
hasattr(o, name) == name \in DOMAIN o.methods

(***************************************************************************)
(* Structural typing: a class satisfies a Protocol when it implements the  *)
(* required methods, with the declared types.                              *)
(***************************************************************************)
SatisfiesAny(o, p) ==
  \E m \in DOMAIN p.methods : hasattr(o, m) /\ o.methods[m] = p.methods[m]

Satisfies(o, p) ==
  \A m \in DOMAIN p.methods : hasattr(o, m) /\ o.methods[m] = p.methods[m]

(***************************************************************************)
(* isinstance(o, p) for a Protocol p: a TypeError unless p is              *)
(* runtime_checkable, otherwise whether every required method exists.      *)
(***************************************************************************)
RECURSIVE AllPresent(_, _)
AllPresent(o, names) ==
  IF names = {} THEN TRUE
  ELSE LET n == CHOOSE x \in names : TRUE
       IN  IF hasattr(o, n) THEN AllPresent(o, names \ {n}) ELSE FALSE

isinstanceSigs(o, p) ==
  IF ~p.runtime THEN "TypeError"
  ELSE IF Satisfies(o, p) THEN "True" ELSE "False"

isinstance(o, p) ==
  IF ~p.runtime THEN "TypeError"
  ELSE IF AllPresent(o, DOMAIN p.methods) THEN "True" ELSE "False"

(***************************************************************************)
(* State after the article's definitions have been executed.               *)
(***************************************************************************)
Init ==
  /\ protocols = Protocols
  /\ added = 0
  /\ user = [name |-> <<>>, age |-> 0]
  /\ pc = "idle"
  /\ plugin = "ImageProcessor"
  /\ trace = <<>>
  /\ quacks = 0
  /\ responses = <<>>
  /\ boxes = <<>>
  /\ out = <<>>
  /\ last = [fn |-> "none"]

(***************************************************************************)
(* Section 2.2: a new method is added to a Protocol.                       *)
(***************************************************************************)
AddMethod(P, m, r) ==
  /\ added < MaxAdded
  /\ m \notin DOMAIN protocols[P].methods
  /\ protocols' =
       [protocols EXCEPT ![P].methods = (m :> r) @@ protocols[P].methods]
  /\ added' = added + 1
  /\ last' = [fn |-> "add_method", proto |-> P, method |-> m]
  /\ UNCHANGED <<user, pc, plugin, trace, quacks, responses, boxes, out>>

(***************************************************************************)
(* Section 4.3.1: print(isinstance(o, P)).                                 *)
(***************************************************************************)
IsInstanceCheck(o, P) ==
  /\ last' = [fn |-> "isinstance", obj |-> o, proto |-> P,
              result |-> isinstance(o, protocols[P])]
  /\ UNCHANGED <<protocols, added, user, pc, plugin, trace, quacks,
                 responses, boxes, out>>

NextProto ==
  \/ \E P \in ProtocolNames, m \in NewMethods : AddMethod(P, m, "None")
  \/ \E o \in Objects, P \in ProtocolNames : IsInstanceCheck(o, P)

SpecProto == Init /\ [][NextProto]_vars

(***************************************************************************)
(* A call f(o) is accepted where the parameter of f is annotated with a    *)
(* Protocol when o satisfies that Protocol, in the Protocol table ps.      *)
(***************************************************************************)
Accepted(ps, f, o) == Satisfies(o, ps[ParamProtocol[f]])

(***************************************************************************)
(* Section 3.1: User.                                                      *)
(***************************************************************************)
Letters == {"a", "b"}

Names == UNION {[1..n -> Letters] : n \in 0..MaxNameLen}

Ages == (0 - MaxAge)..MaxAge

User_init(name, age) ==
  /\ pc = "idle"
  /\ user' = [name |-> name, age |-> age]
  /\ out' = <<>>
  /\ last' = [fn |-> "__init__"]
  /\ UNCHANGED <<protocols, added, pc, plugin, trace, quacks, responses,
                 boxes>>

validateNonNegative(u) == Len(u.name) > 0 /\ u.age >= 0

validate(u) == Len(u.name) > 0 /\ u.age > 0

User_validate ==
  /\ pc = "idle"
  /\ out' = <<>>
  /\ last' = [fn |-> "validate", self |-> user, ret |-> validate(user)]
  /\ UNCHANGED <<protocols, added, user, pc, plugin, trace, quacks,
                 responses, boxes>>

(***************************************************************************)
(* save_to_db(data), where data is the User or any other Validatable and   *)
(* data.validate() returns valid.  out holds the lines printed by the most *)
(* recent call.                                                            *)
(***************************************************************************)
save_to_dbAlwaysSaves(data, valid) ==
  /\ pc = "idle"
  /\ out' = <<"Saving to database">>
  /\ last' = [fn |-> "save_to_db", data |-> data, validated |-> valid,
              raised |-> IF valid THEN None ELSE Some("ValueError")]
  /\ UNCHANGED <<protocols, added, user, pc, plugin, trace, quacks,
                 responses, boxes>>

save_to_db(data, valid) ==
  /\ pc = "idle"
  /\ IF valid
       THEN /\ out' = <<"Saving to database">>
            /\ last' = [fn |-> "save_to_db", data |-> data, validated |-> valid,
                        raised |-> None]
       ELSE /\ out' = <<>>
            /\ last' = [fn |-> "save_to_db", data |-> data, validated |-> valid,
                        raised |-> Some("ValueError")]
  /\ UNCHANGED <<protocols, added, user, pc, plugin, trace, quacks,
                 responses, boxes>>

(***************************************************************************)
(* Section 3.2: run_plugin(plugin).  The plugin is an ImageProcessor,      *)
(* whose methods print and return, or any other Plugin, whose methods      *)
(* return or raise.  trace holds the events of the most recent call.       *)
(***************************************************************************)
PluginKinds == {"ImageProcessor", "Other"}

run_pluginExecuteFirst(p) ==
  /\ pc = "idle"
  /\ plugin' = p
  /\ trace' = <<"call execute">>
  /\ out' = <<>>
  /\ pc' = "execute"
  /\ last' = [fn |-> "run_plugin", raised |-> None]
  /\ UNCHANGED <<protocols, added, user, quacks, responses, boxes>>

run_plugin(p) ==
  /\ pc = "idle"
  /\ plugin' = p
  /\ trace' = <<"call initialize">>
  /\ out' = <<>>
  /\ pc' = "initialize"
  /\ last' = [fn |-> "run_plugin", raised |-> None]
  /\ UNCHANGED <<protocols, added, user, quacks, responses, boxes>>

initialize_returns ==
  /\ pc = "initialize"
  /\ trace' = trace \o <<"return initialize", "call execute">>
  /\ out' = IF plugin = "ImageProcessor"
              THEN Append(out, "Initializing image processor")
              ELSE out
  /\ pc' = "execute"
  /\ UNCHANGED <<protocols, added, user, plugin, quacks, responses, boxes,
                 last>>

initialize_raises ==
  /\ pc = "initialize"
  /\ plugin # "ImageProcessor"
  /\ trace' = Append(trace, "raise initialize")
  /\ pc' = "idle"
  /\ last' = [fn |-> "run_plugin", raised |-> Some("initialize")]
  /\ UNCHANGED <<protocols, added, user, plugin, quacks, responses, boxes,
                 out>>

execute_returns ==
  /\ pc = "execute"
  /\ trace' = Append(trace, "return execute")
  /\ out' = IF plugin = "ImageProcessor"
              THEN Append(out, "Processing image")
              ELSE out
  /\ pc' = "idle"
  /\ UNCHANGED <<protocols, added, user, plugin, quacks, responses, boxes,
                 last>>

execute_raises ==
  /\ pc = "execute"
  /\ plugin # "ImageProcessor"
  /\ trace' = Append(trace, "raise execute")
  /\ pc' = "idle"
  /\ last' = [fn |-> "run_plugin", raised |-> Some("execute")]
  /\ UNCHANGED <<protocols, added, user, plugin, quacks, responses, boxes,
                 out>>

(***************************************************************************)
(* Section 1: Duck().quack().  quacks counts the calls made so far.        *)
(***************************************************************************)
Duck_quackOnlyFirst ==
  /\ pc = "idle"
  /\ quacks < MaxCalls
  /\ quacks' = quacks + 1
  /\ out' = <<>>
  /\ last' = [fn |-> "quack", ret |-> IF quacks = 0 THEN "Quack!" ELSE ""]
  /\ UNCHANGED <<protocols, added, user, pc, plugin, trace, responses,
                 boxes>>

Duck_quack ==
  /\ pc = "idle"
  /\ quacks < MaxCalls
  /\ quacks' = quacks + 1
  /\ out' = <<>>
  /\ last' = [fn |-> "quack", ret |-> "Quack!"]
  /\ UNCHANGED <<protocols, added, user, pc, plugin, trace, responses,
                 boxes>>

NextCalls ==
  \/ \E name \in Names, age \in Ages : User_init(name, age)
  \/ User_validate
  \/ save_to_db("User", validate(user))
  \/ \E valid \in BOOLEAN : save_to_db("Other", valid)
  \/ \E p \in PluginKinds : run_plugin(p)
  \/ initialize_returns
  \/ initialize_raises
  \/ execute_returns
  \/ execute_raises
  \/ Duck_quack

SpecCalls == Init /\ [][NextCalls]_vars

(***************************************************************************)
(* Python dict operations: d[key] = v, and del d[key].  The empty dict is  *)
(* the function with the empty domain.                                     *)
(***************************************************************************)
EmptyDict == <<>>

DictSet(d, key, v) ==
  [k \in DOMAIN d \cup {key} |-> IF k = key THEN v ELSE d[k]]

DictDel(d, key) == [k \in DOMAIN d \ {key} |-> d[k]]

(***************************************************************************)
(* Section 5.1: WebResponse.  responses[i] is the cookies dict of the i-th *)
(* instance created.                                                       *)
(***************************************************************************)
Keys == {"session_id", "theme"}

(***************************************************************************)
(* Arguments of set_cookie: a call that passes only key and value and      *)
(* leaves the other parameters at their defaults, and the call made by     *)
(* handle_response.                                                        *)
(***************************************************************************)
DefaultArgs ==
  [value |-> "dark", max_age |-> None, expires |-> None, path |-> "/",
   domain |-> None, secure |-> FALSE, httponly |-> FALSE,
   samesite |-> "be better"]

HandleResponseArgs ==
  [DefaultArgs EXCEPT !.value = "abc123", !.max_age = Some(3600),
                      !.httponly = TRUE, !.secure = TRUE]

CookieArgs == {DefaultArgs, HandleResponseArgs}

WebResponse_init ==
  /\ pc = "idle"
  /\ Len(responses) < MaxInst
  /\ responses' = Append(responses, EmptyDict)
  /\ out' = <<>>
  /\ last' = [fn |-> "WebResponse", self |-> Len(responses) + 1]
  /\ UNCHANGED <<protocols, added, user, pc, plugin, trace, quacks, boxes>>

Cookie(a) ==
  [value |-> a.value, max_age |-> a.max_age, expires |-> a.expires,
   path |-> a.path, domain |-> a.domain, secure |-> a.secure,
   httponly |-> a.httponly, samesite |-> a.samesite]

WebResponse_set_cookieShared(rs, self, key, a) ==
  [i \in DOMAIN rs |-> DictSet(rs[i], key, Cookie(a))]

WebResponse_set_cookie(rs, self, key, a) ==
  [rs EXCEPT ![self] = DictSet(@, key, Cookie(a))]

WebResponse_delete_cookie(rs, self, key) ==
  IF key \in DOMAIN rs[self]
    THEN [rs EXCEPT ![self] = DictDel(@, key)]
    ELSE rs

set_cookie(self, key, a) ==
  /\ pc = "idle"
  /\ responses' = WebResponse_set_cookie(responses, self, key, a)
  /\ out' = <<>>
  /\ last' = [fn |-> "set_cookie", self |-> self]
  /\ UNCHANGED <<protocols, added, user, pc, plugin, trace, quacks, boxes>>

delete_cookie(self, key) ==
  /\ pc = "idle"
  /\ responses' = WebResponse_delete_cookie(responses, self, key)
  /\ out' = <<>>
  /\ last' = [fn |-> "delete_cookie", self |-> self]
  /\ UNCHANGED <<protocols, added, user, pc, plugin, trace, quacks, boxes>>

(***************************************************************************)
(* handle_response(response), for a WebResponse.                           *)
(***************************************************************************)
handle_response(self) ==
  /\ pc = "idle"
  /\ responses' =
       WebResponse_set_cookie(responses, self, "session_id",
                              HandleResponseArgs)
  /\ out' = <<>>
  /\ last' = [fn |-> "handle_response", self |-> self]
  /\ UNCHANGED <<protocols, added, user, pc, plugin, trace, quacks, boxes>>

(***************************************************************************)
(* Section 4.3.3: NumberBox.  boxes[i] is _value of the i-th instance      *)
(* created; floats are counted in halves (0 is 0.0, 1 is 0.5, ...).        *)
(***************************************************************************)
Floats == {0, 1, 3}

NumberBox_init ==
  /\ pc = "idle"
  /\ Len(boxes) < MaxInst
  /\ boxes' = Append(boxes, 0)
  /\ out' = <<>>
  /\ last' = [fn |-> "NumberBox", self |-> Len(boxes) + 1]
  /\ UNCHANGED <<protocols, added, user, pc, plugin, trace, quacks,
                 responses>>

NumberBox_get(self) ==
  /\ pc = "idle"
  /\ out' = <<>>
  /\ last' = [fn |-> "get", self |-> self, ret |-> boxes[self]]
  /\ UNCHANGED <<protocols, added, user, pc, plugin, trace, quacks,
                 responses, boxes>>

NumberBox_set(self, value) ==
  /\ pc = "idle"
  /\ boxes' = [boxes EXCEPT ![self] = value]
  /\ out' = <<>>
  /\ last' = [fn |-> "set", self |-> self]
  /\ UNCHANGED <<protocols, added, user, pc, plugin, trace, quacks,
                 responses>>

NextInst ==
  \/ WebResponse_init
  \/ \E self \in DOMAIN responses, key \in Keys, a \in CookieArgs :
       set_cookie(self, key, a)
  \/ \E self \in DOMAIN responses, key \in Keys : delete_cookie(self, key)
  \/ \E self \in DOMAIN responses : handle_response(self)
  \/ NumberBox_init
  \/ \E self \in DOMAIN boxes : NumberBox_get(self)
  \/ \E self \in DOMAIN boxes, value \in Floats : NumberBox_set(self, value)

SpecInst == Init /\ [][NextInst]_vars

(***************************************************************************)
(* Properties.                                                             *)
(***************************************************************************)
Count(seq, e) == Cardinality({i \in DOMAIN seq : seq[i] = e})

(***************************************************************************)
(* C1: save_to_db(data) raises ValueError exactly when data.validate()     *)
(* returned False, and then nothing is saved; when data.validate()         *)
(* returned True, "Saving to database" happens exactly once and nothing is *)
(* raised.                                                                 *)
(***************************************************************************)
C1_SaveToDbRaisesIffInvalid ==
  last.fn = "save_to_db" =>
    /\ (last.raised = Some("ValueError")) <=> (last.validated = FALSE)
    /\ last.raised # None => Count(out, "Saving to database") = 0
    /\ last.validated =>
         Count(out, "Saving to database") = 1 /\ last.raised = None

C1_Witness ==
  /\ last.fn = "save_to_db"
  /\ last.data = "User"
  /\ user.name # <<>>
  /\ user.age = 0
  /\ last.raised = Some("ValueError")
  /\ out = <<>>

(***************************************************************************)
(* C2: for a runtime_checkable Protocol P and any object o, isinstance(o,  *)
(* P) is True exactly when o has every method name P requires, whatever    *)
(* the return types are.                                                   *)
(***************************************************************************)
C2_IsInstanceChecksNamesOnly ==
  (last.fn = "isinstance" /\ protocols[last.proto].runtime) =>
    ((last.result = "True") <=>
       (DOMAIN protocols[last.proto].methods \subseteq DOMAIN last.obj.methods))

C2_Witness ==
  /\ last.fn = "isinstance"
  /\ last.obj = Shape
  /\ last.proto = "Drawable"
  /\ protocols["Drawable"] = Drawable
  /\ last.obj.methods["draw"] # protocols["Drawable"].methods["draw"]
  /\ last.result = "True"

C4_ValidateIffNameAndPositiveAge ==
  [][last'.fn = "validate" =>
       /\ (last'.ret = TRUE) <=> (user.name # <<>> /\ user.age >= 1)
       /\ user'.name = user.name
       /\ user'.age = user.age]_vars

C4_Witness ==
  /\ last.fn = "validate"
  /\ user.name # <<>>
  /\ user.age = 0
  /\ last.ret = FALSE

(***************************************************************************)
(* C5: every call of Duck.quack() returns "Quack!", whatever was called    *)
(* before, and Duck satisfies Quackable without inheriting from it.        *)
(***************************************************************************)
C5_QuackReturnsQuack ==
  /\ last.fn = "quack" => last.ret = "Quack!"
  /\ Satisfies(Classes["Duck"], protocols["Quackable"])
  /\ "Quackable" \notin Classes["Duck"].bases

C5_Witness ==
  /\ last.fn = "quack"
  /\ quacks >= 2
  /\ user.name # <<>>
  /\ last.ret = "Quack!"

(***************************************************************************)
(* C6: a set_cookie or delete_cookie on one WebResponse leaves the cookies *)
(* of every other WebResponse unchanged, and a set on one NumberBox leaves *)
(* the value of every other NumberBox unchanged.                           *)
(***************************************************************************)
C6_InstancesShareNoState ==
  [][/\ last'.fn \in {"set_cookie", "delete_cookie", "handle_response"} =>
          /\ \A i \in DOMAIN responses :
               i # last'.self => responses'[i] = responses[i]
          /\ boxes' = boxes
     /\ last'.fn = "set" =>
          /\ \A i \in DOMAIN boxes : i # last'.self => boxes'[i] = boxes[i]
          /\ responses' = responses]_vars

C6_Witness ==
  /\ last.fn = "set_cookie"
  /\ \E i, j \in DOMAIN responses :
       /\ i # j
       /\ i = last.self
       /\ responses[i] # EmptyDict
       /\ responses[j] = EmptyDict
  /\ \E i, j \in DOMAIN boxes : boxes[i] # boxes[j]

(***************************************************************************)
(* C7: run_plugin calls initialize once and then execute once, in that     *)
(* order; execute is not called before initialize has returned, and not at *)
(* all if initialize raises.                                               *)
(***************************************************************************)
C7_InitializeThenExecute ==
  /\ Count(trace, "call initialize") <= 1
  /\ Count(trace, "call execute") <= 1
  /\ pc # "idle" => Count(trace, "call initialize") = 1
  /\ \A i \in DOMAIN trace :
       trace[i] = "call execute" =>
         \E j \in 1..(i - 1) : trace[j] = "return initialize"
  /\ Count(trace, "raise initialize") > 0 => Count(trace, "call execute") = 0
  /\ (last.fn = "run_plugin" /\ pc = "idle" /\ last.raised = None) =>
       trace = <<"call initialize", "return initialize",
                 "call execute", "return execute">>
  /\ (last.fn = "run_plugin" /\ last.raised = Some("initialize")) =>
       trace = <<"call initialize", "raise initialize">>

C7_Witness ==
  /\ last.fn = "run_plugin"
  /\ pc = "idle"
  /\ plugin = "Other"
  /\ last.raised = Some("initialize")
  /\ Count(trace, "call initialize") = 1
  /\ Count(trace, "call execute") = 0

====
